---- MODULE Spec2Model ----
(***************************************************************************)
(* AutomationZ Server Backup Scheduler (app/main.py): the scheduler, the   *)
(* backup run (run_job, _download_dir, _cleanup_snapshots), the FTP client *)
(* wrapper and the path helpers.                                           *)
(*                                                                         *)
(* Text is a sequence of one-character strings, so that the string         *)
(* operations of the program (replace, strip, split, startswith, sort by   *)
(* name) are computed and not assumed.  A pathlib.Path is the sequence of  *)
(* its segments below the filesystem root; the local filesystem is POSIX   *)
(* (os.sep = "/") and holds no symbolic links.                             *)
(***************************************************************************)
EXTENDS Integers, Sequences, FiniteSets, TLC

VARIABLES
    clock,              \* the wall clock, an element of Times
    profiles,           \* App.profiles
    active_profile,     \* App.active_profile: a profile name, or None
    jobs,               \* App.jobs
    settings,           \* App.settings["discord"]: the three notify flags
    scheduler_running,  \* App.scheduler_running
    last_run_key,       \* App.last_run_key: job name -> key_time, or None
    pending,            \* number of _tick callbacks registered with after()
    dirs,               \* local filesystem: the directories that exist
    files,              \* local filesystem: the regular files that exist
    runs,               \* history: the runs of the last handler, in order
    fired,              \* history: <<job index, instant>> -> scheduled triggers
    ticked,             \* history: instants at which a tick evaluated the jobs
    call                \* history: the last call of a helper, with its result

vars == <<clock, profiles, active_profile, jobs, settings, scheduler_running, last_run_key,
          pending, dirs, files, runs, fired, ticked, call>>

-----------------------------------------------------------------------------
(* Bounds of the model *)

MaxWeek == 1            \* the clock covers the weeks 0..MaxWeek
MaxPending == 2         \* at most this many _tick callbacks are registered
MaxFired == 2           \* the trigger counters of the history saturate here
RecursionLimit == 3     \* depth at which the interpreter raises RecursionError
RunHorizon == 2         \* instants that follow the first one of a sequence of runs
MaxProfiles == 3        \* longest profile list the Profiles tab builds
MaxLen == 3             \* longest text norm_remote is called with

-----------------------------------------------------------------------------
(* Text *)

None == <<"None">>      \* Python's None, distinct from every text used
NoExc == "none"         \* no exception is propagating

S1(c) == <<c>>
Digit(n) == S1(CASE n = 0 -> "0" [] n = 1 -> "1" [] n = 2 -> "2" [] n = 3 -> "3"
                 [] n = 4 -> "4" [] n = 5 -> "5" [] n = 6 -> "6" [] n = 7 -> "7"
                 [] n = 8 -> "8" [] OTHER -> "9")
\* f"{n:02d}" and strftime's two-digit fields
Fmt02(n) == Digit((n \div 10) % 10) \o Digit(n % 10)

\* ord(c) for the characters the model uses
Code(c) ==
    CASE c = "." -> 46 [] c = "/" -> 47
      [] c = "0" -> 48 [] c = "1" -> 49 [] c = "2" -> 50 [] c = "3" -> 51
      [] c = "4" -> 52 [] c = "5" -> 53 [] c = "6" -> 54 [] c = "7" -> 55
      [] c = "8" -> 56 [] c = "9" -> 57
      [] c = ":" -> 58 [] c = "-" -> 45 [] c = " " -> 32
      [] c = "I" -> 73 [] c = "M" -> 77 [] c = "O" -> 79 [] c = "R" -> 82
      [] c = "\\" -> 92 [] c = "_" -> 95
      [] c = "a" -> 97 [] c = "b" -> 98 [] c = "c" -> 99 [] c = "d" -> 100
      [] c = "j" -> 106 [] c = "p" -> 112 [] c = "s" -> 115 [] c = "x" -> 120
      [] OTHER -> 127

\* Python's s < t on str: lexicographic by code point
RECURSIVE StrLess(_, _)
StrLess(s, t) ==
    IF t = <<>> THEN FALSE
    ELSE IF s = <<>> THEN TRUE
    ELSE IF Code(Head(s)) # Code(Head(t)) THEN Code(Head(s)) < Code(Head(t))
    ELSE StrLess(Tail(s), Tail(t))

StartsWith(s, c) == Len(s) > 0 /\ s[1] = c
EndsWith(s, c) == Len(s) > 0 /\ s[Len(s)] = c
Replace(s, a, b) == [i \in 1..Len(s) |-> IF s[i] = a THEN b ELSE s[i]]
Remove(s, a) == SelectSeq(s, LAMBDA x : x # a)

RECURSIVE LStrip(_, _)
LStrip(s, cs) == IF Len(s) > 0 /\ Head(s) \in cs THEN LStrip(Tail(s), cs) ELSE s

RECURSIVE RStrip(_, _)
RStrip(s, cs) ==
    IF Len(s) > 0 /\ s[Len(s)] \in cs THEN RStrip(SubSeq(s, 1, Len(s) - 1), cs) ELSE s

Whitespace == {" ", "\t", "\n", "\r"}
Strip(s) == RStrip(LStrip(s, Whitespace), Whitespace)

\* str.split(c): the pieces between the occurrences of c, empty ones kept
RECURSIVE Split(_, _)
Split(s, c) ==
    IF \A i \in 1..Len(s) : s[i] # c THEN <<s>>
    ELSE LET i == CHOOSE k \in 1..Len(s) : s[k] = c /\ \A m \in 1..(k - 1) : s[m] # c
         IN  <<SubSeq(s, 1, i - 1)>> \o Split(SubSeq(s, i + 1, Len(s)), c)

Last(q) == q[Len(q)]
Range(q) == {q[i] : i \in 1..Len(q)}

\* the two conditional rewrites of norm_remote
LeadingSlash(p) == IF ~StartsWith(p, "/") THEN <<"/">> \o p ELSE p
DropTrailingSlash(p) ==
    IF Len(p) > 1 /\ EndsWith(p, "/") THEN SubSeq(p, 1, Len(p) - 1) ELSE p

norm_remote(path) ==
    DropTrailingSlash(LeadingSlash(
        Remove(Remove(Replace(IF path = None THEN <<>> ELSE path, "\\", "/"), "\r"), "\n")))

-----------------------------------------------------------------------------
(* pathlib *)

DotDot == <<".", ".">>
Dot == <<".">>

\* the segments pathlib keeps of a text: empty and "." segments are dropped
Segments(text) == SelectSeq(Split(text, "/"), LAMBDA g : g # <<>> /\ g # Dot)

\* root / rel
PathJoin(root, rel) == IF StartsWith(rel, "/") THEN Segments(rel) ELSE root \o Segments(rel)

\* Path.resolve() on a filesystem without symbolic links: ".." steps to the
\* parent, and the parent of the filesystem root is the root
RECURSIVE ResolveFrom(_, _)
ResolveFrom(done, rest) ==
    IF rest = <<>> THEN done
    ELSE IF Head(rest) = DotDot
         THEN ResolveFrom(IF done = <<>> THEN <<>> ELSE SubSeq(done, 1, Len(done) - 1),
                          Tail(rest))
         ELSE ResolveFrom(Append(done, Head(rest)), Tail(rest))
Resolve(path) == ResolveFrom(<<>>, path)

\* Path.parents
Parents(path) == {SubSeq(path, 1, n) : n \in 0..(Len(path) - 1)}
Parent(path) == IF path = <<>> THEN <<>> ELSE SubSeq(path, 1, Len(path) - 1)
IsUnder(path, root) == path = root \/ root \in Parents(path)

\* the test of safe_join_local on the resolved paths: ok is FALSE where the
\* program raises ValueError
Contained(out, rr) == [ok |-> ~(out # rr /\ rr \notin Parents(out)), path |-> out]

\* a faulty safe_join_local that resolves the path and omits the containment
\* test (sensitivity of C3)
safe_join_local_NoCheck(root, rel) ==
    [ok |-> TRUE, path |-> Resolve(PathJoin(root, LStrip(Replace(rel, "/", "/"), {"/"})))]

\* safe_join_local: [ok |-> the path was accepted, path |-> the resolved path];
\* os.sep is "/"
safe_join_local(root, rel) ==
    Contained(Resolve(PathJoin(root, LStrip(Replace(rel, "/", "/"), {"/"}))), Resolve(root))

-----------------------------------------------------------------------------
(* The remote server and the faults of one run.                             *)
(* A server is [dirs, files, list]: the canonical paths of its directories  *)
(* and files, and for each directory the names a listing yields, in order.  *)
(* An environment env is what one run meets:                                *)
(*   srv      the server's tree                                             *)
(*   connect  "ok" | "refused" (no connection) | "login" (login or TLS step *)
(*            fails on an established connection)                           *)
(*   mlsd     "ok" | "fail" (raises at once) | "partial" (raises after the  *)
(*            first entry)                                                  *)
(*   nlst     "names" | "paths" | "dots" (names, with . and ..) | "fail"    *)
(*   retrFail the remote files whose RETR fails midstream                   *)
(*   rmFail   the snapshot names whose rmtree fails                         *)
(*   iterdir  the order in which the filesystem enumerates a directory      *)

\* the path the server resolves a path text to
SrvResolve(text) == Resolve(Segments(text))
SrvIsDir(env, text) == SrvResolve(text) \in env.srv.dirs
SrvIsFile(env, text) == SrvResolve(text) \in env.srv.files

\* the history of a run: one event per call and log line; r is the remote
\* path text, l the local path and msg the error text it carries
Ev(op, r, l, msg) == [op |-> op, r |-> r, l |-> l, msg |-> msg]
Emit(st, op, r, l) == [st EXCEPT !.ev = Append(@, Ev(op, r, l, ""))]
EmitMsg(st, op, msg) == [st EXCEPT !.ev = Append(@, Ev(op, <<>>, <<>>, msg))]
Raise(st, e) == [st EXCEPT !.exc = e]
Ok(st) == st.exc = NoExc
\* sequencing: next runs unless an error is propagating
Then(st, next(_)) == IF Ok(st) THEN next(st) ELSE st

\* FTPClient.connect
connect(st, env, p) ==
    CASE env.connect = "refused" ->
            Raise(Emit(st, "connect", <<>>, <<>>), "ConnectionRefusedError")
      [] env.connect = "login" ->
            Raise([Emit(st, "connect", <<>>, <<>>) EXCEPT !.sock = @ + 1], "error_perm login")
      [] OTHER ->
            [Emit(st, "connect", <<>>, <<>>) EXCEPT !.sock = @ + 1, !.ftp = TRUE,
                                                   !.cwd = <<"/">>]

\* FTPClient.close: quit() on the connection the client holds, if any
close(st) ==
    IF st.ftp
    THEN [Emit(st, "close", <<>>, <<>>) EXCEPT !.sock = @ - 1, !.ftp = FALSE]
    ELSE Emit(st, "close", <<>>, <<>>)

\* the ftplib.FTP object that connect() built and did not store in self.ftp
\* is unreferenced once the error is handled: the interpreter finalizes it
\* and closes its socket at once (env.gc = "prompt") or at some later time
Collect(st, env) ==
    IF env.gc = "prompt" /\ ~st.ftp THEN [st EXCEPT !.sock = 0] ELSE st

\* ftp.cwd(path): raises where the server has no such directory
cwd(st, env, path) ==
    IF SrvIsDir(env, path) THEN [st EXCEPT !.cwd = path] ELSE Raise(st, "error_perm CWD")

\* the n-th ftp.cwd(cur) of a call of is_dir is refused
CwdBackFails(env, n) == env.cwdBack = "fail" \/ (env.cwdBack = "once" /\ n = 1)

\* FTPClient.is_dir: [st, result]; cur is the directory pwd() returned.
\* When cwd(path) raises the server has not moved, whatever becomes of the
\* cwd(cur) of the except clause
IsDirFrom(st, env, path, cur) ==
    IF ~Ok(cwd(st, env, path)) THEN [st |-> [st EXCEPT !.cwd = cur], result |-> FALSE]
    ELSE IF ~CwdBackFails(env, 1) THEN [st |-> [st EXCEPT !.cwd = cur], result |-> TRUE]
    ELSE IF ~CwdBackFails(env, 2) THEN [st |-> [st EXCEPT !.cwd = cur], result |-> FALSE]
    ELSE [st |-> [st EXCEPT !.cwd = path], result |-> FALSE]
is_dir(st, env, path) == IsDirFrom(Emit(st, "is_dir", path, <<>>), env, path, st.cwd)

\* the listing the server holds for a directory
SrvList(env, path) ==
    IF SrvIsDir(env, path) THEN env.srv.list[SrvResolve(path)] ELSE <<>>

\* what MLSD yields for a directory before it ends or raises
MlsdYield(env, all) ==
    CASE env.mlsd = "ok" -> all
      [] env.mlsd = "partial" -> SubSeq(all, 1, IF Len(all) > 0 THEN 1 ELSE 0)
      [] env.mlsd = "partial_last" -> SubSeq(all, Len(all), Len(all))
      [] OTHER -> <<>>
MlsdRaises(env, path) == env.mlsd # "ok" \/ ~SrvIsDir(env, path)

\* what NLST returns for a directory
NlstRaw(env, path, all) ==
    CASE env.nlst = "paths" ->
            [i \in 1..Len(all) |-> RStrip(path, {"/"}) \o <<"/">> \o all[i]]
      [] env.nlst = "dots" -> <<Dot, DotDot>> \o all
      [] OTHER -> all
NlstRaises(env, path) == env.nlst = "fail" \/ ~SrvIsDir(env, path)

\* the de-duplication loop of list_dir: first occurrences, in order
RECURSIVE Dedup(_, _)
Dedup(items, out) ==
    IF items = <<>> THEN out
    ELSE Dedup(Tail(items),
               IF Head(items) \in Range(out) THEN out ELSE Append(out, Head(items)))

\* r.replace("\\", "/").split("/")[-1] for each r of the NLST result
Basenames(raw) == [i \in 1..Len(raw) |-> Last(Split(Replace(raw[i], "\\", "/"), "/"))]

\* list_dir once the MLSD loop has appended items
ListFrom(env, path, items) ==
    IF ~MlsdRaises(env, path) THEN items
    ELSE IF NlstRaises(env, path) THEN <<>>
    ELSE Dedup(items \o Basenames(NlstRaw(env, path, SrvList(env, path))), <<>>)

\* FTPClient.list_dir: the names returned
list_dir(env, path) ==
    ListFrom(env, path,
             SelectSeq(MlsdYield(env, SrvList(env, path)), LAMBDA n : n \notin {Dot, DotDot}))

\* Path.mkdir(parents=True, exist_ok=True)
MkdirParents(st, path) ==
    IF \E a \in Parents(path) \cup {path} : a \in st.files
    THEN Raise(st, "FileExistsError")
    ELSE [st EXCEPT !.dirs = @ \cup Parents(path) \cup {path}]

\* open(local_path, "wb")
OpenWb(st, local_path) ==
    IF local_path \in st.dirs THEN Raise(st, "IsADirectoryError")
    ELSE [st EXCEPT !.files = @ \cup {local_path}]

\* ftp.retrbinary("RETR " + remote_full, f.write)
retrbinary(st, env, remote_full) ==
    IF SrvIsFile(env, remote_full) /\ SrvResolve(remote_full) \notin env.retrFail
    THEN st
    ELSE Raise(st, "error_perm RETR")

\* FTPClient.download_file
download_file(st, env, remote_full, local_path) ==
    Then(Then(MkdirParents(Emit(st, "download_file", remote_full, local_path),
                           Parent(local_path)),
              LAMBDA s1 : OpenWb(s1, local_path)),
         LAMBDA s2 : retrbinary(s2, env, remote_full))

-----------------------------------------------------------------------------
(* The local filesystem *)

Children(st, dir) == {x \in st.dirs \cup st.files : Len(x) = Len(dir) + 1 /\ Parent(x) = dir}

RECURSIVE AscendingByName(_)
AscendingByName(S) ==
    IF S = {} THEN <<>>
    ELSE LET m == CHOOSE x \in S : \A y \in S \ {x} : StrLess(Last(x), Last(y))
         IN  <<m>> \o AscendingByName(S \ {m})

Reverse(q) == [i \in 1..Len(q) |-> q[Len(q) + 1 - i]]

\* Path.iterdir(): the entries of a directory in the order the filesystem
\* happens to enumerate them
iterdir(st, env, dir) ==
    LET asc == AscendingByName(Children(st, dir))
    IN  CASE env.iterdir = "desc" -> Reverse(asc)
          [] env.iterdir = "rot" -> IF asc = <<>> THEN asc ELSE Tail(asc) \o <<Head(asc)>>
          [] OTHER -> asc

\* list.sort(key=lambda p: p.name, reverse=True): a stable sort of paths by
\* their last segment, greatest first
RECURSIVE InsertByNameDesc(_, _)
InsertByNameDesc(sorted, d) ==
    IF sorted = <<>> THEN <<d>>
    ELSE IF StrLess(Last(Head(sorted)), Last(d)) THEN <<d>> \o sorted
    ELSE <<Head(sorted)>> \o InsertByNameDesc(Tail(sorted), d)

\* a faulty sort that leaves the enumeration order (sensitivity of C4)
SortByNameDesc_Unsorted(q) == q

RECURSIVE SortByNameDesc(_)
SortByNameDesc(q) ==
    IF q = <<>> THEN <<>>
    ELSE InsertByNameDesc(SortByNameDesc(SubSeq(q, 1, Len(q) - 1)), Last(q))

\* shutil.rmtree(d)
rmtree(st, d) ==
    [st EXCEPT !.dirs = {x \in @ : ~IsUnder(x, d)}, !.files = {x \in @ : ~IsUnder(x, d)}]

RECURSIVE RemoveSnapshots_StopAtFailure(_, _, _, _)
\* a loop that gives up at the first removal that fails (sensitivity of C22)
RemoveSnapshots_StopAtFailure(st, env, doomed, i) ==
    IF i > Len(doomed) THEN st
    ELSE IF i \in env.rmFail THEN Emit(st, "warn_cleanup", <<>>, doomed[i])
    ELSE RemoveSnapshots_StopAtFailure(
            Emit(rmtree(st, doomed[i]), "rmtree", <<>>, doomed[i]), env, doomed, i + 1)

\* the loop of _cleanup_snapshots over snaps[keep_last:]; the i-th removal
\* fails when i is in env.rmFail, and is then logged as a warning
RECURSIVE RemoveSnapshots(_, _, _, _)
RemoveSnapshots(st, env, doomed, i) ==
    IF i > Len(doomed) THEN st
    ELSE RemoveSnapshots(
            IF i \in env.rmFail
            THEN Emit(st, "warn_cleanup", <<>>, doomed[i])
            ELSE Emit(rmtree(st, doomed[i]), "rmtree", <<>>, doomed[i]),
            env, doomed, i + 1)

\* a faulty slice snaps[keep_last + 1:] (sensitivity of C5)
SliceFrom_OffByOne(q, k) == IF k + 1 >= Len(q) THEN <<>> ELSE SubSeq(q, k + 2, Len(q))

\* snaps[keep_last:]
SliceFrom(q, k) == IF k >= Len(q) THEN <<>> ELSE SubSeq(q, k + 1, Len(q))

\* _cleanup_snapshots from its sort on
CleanupFrom(st, env, snaps, keep_last) ==
    RemoveSnapshots(st, env, SliceFrom(SortByNameDesc(snaps), keep_last), 1)

\* the history notes the directories that exist when the cleanup starts
EnterCleanup(st, job_dir) == [Emit(st, "cleanup", <<>>, job_dir) EXCEPT !.cdirs = st.dirs]

\* App._cleanup_snapshots
_cleanup_snapshots(st, env, job_dir, keep_last) ==
    IF job_dir \notin st.dirs THEN EnterCleanup(st, job_dir)
    ELSE CleanupFrom(EnterCleanup(st, job_dir), env,
                     SelectSeq(iterdir(st, env, job_dir), LAMBDA d : d \in st.dirs),
                     keep_last)

-----------------------------------------------------------------------------
(* The run of one job *)

RECURSIVE _download_dir(_, _, _, _, _, _, _)
RECURSIVE WalkItems(_, _, _, _, _, _, _, _, _)

\* a faulty leaf that downloads in a dry run too (sensitivity of C7)
LeafTo_IgnoringDryRun(st, env, remote, job, target) ==
    IF ~target.ok THEN Raise(Emit(st, "unsafe", remote, target.path), "ValueError")
    ELSE Then(download_file(st, env, remote, target.path),
              LAMBDA s1 : Emit(s1, "log_downloaded", remote, target.path))

\* a leaf once its local path is resolved: download unless dry_run, then log
LeafTo(st, env, remote, job, target) ==
    IF ~target.ok THEN Raise(Emit(st, "unsafe", remote, target.path), "ValueError")
    ELSE Then(IF ~job.dry_run THEN download_file(st, env, remote, target.path) ELSE st,
              LAMBDA s1 : Emit(s1, "log_downloaded", remote, target.path))

\* one leaf of the walk: the else branch of the loop of _download_dir
DownloadLeaf(st, env, remote_child, local_root, job, rel_child) ==
    LeafTo(st, env, remote_child, job, safe_join_local(local_root, rel_child))

\* the body of the loop of _download_dir for one item; d is the outcome of
\* the test job.include_subdirs and cli.is_dir(remote_child)
WalkChild(d, env, remote_child, local_root, job, rel_child, depth) ==
    IF d.result
    THEN _download_dir(d.st, env, remote_child, local_root, job, rel_child, depth + 1)
    ELSE DownloadLeaf(d.st, env, remote_child, local_root, job, rel_child)

WalkItem(st, env, remote_child, local_root, job, rel_child, depth) ==
    WalkChild(IF job.include_subdirs THEN is_dir(st, env, remote_child)
              ELSE [st |-> st, result |-> FALSE],
              env, remote_child, local_root, job, rel_child, depth)

\* the loop of _download_dir from its i-th item on; a raised error ends it
WalkItems(st, env, remote_dir, local_root, job, rel_prefix, items, i, depth) ==
    IF ~Ok(st) \/ i > Len(items) THEN st
    ELSE WalkItems(WalkItem(st, env, RStrip(remote_dir, {"/"}) \o <<"/">> \o items[i],
                            local_root, job,
                            LStrip(rel_prefix \o <<"/">> \o items[i], {"/"}), depth),
                   env, remote_dir, local_root, job, rel_prefix, items, i + 1, depth)

\* App._download_dir; depth counts the nested calls
_download_dir(st, env, remote_dir, local_root, job, rel_prefix, depth) ==
    IF depth > RecursionLimit THEN Raise(st, "RecursionError")
    ELSE WalkItems(Emit(Emit(st, "log_entering", remote_dir, <<>>),
                        "list_dir", remote_dir, <<>>),
                   env, remote_dir, local_root, job, rel_prefix,
                   list_dir(env, remote_dir), 1, depth)

-----------------------------------------------------------------------------
(* The clock.  An instant is [wk, day, hh, mm, ss]; day indexes DAYS from 0 *)
(* (Monday), and week 0 starts on Monday 5 January 2026.                    *)

DAYS == << <<"M","o","n">>, <<"T","u","e">>, <<"W","e","d">>, <<"T","h","u">>,
           <<"F","r","i">>, <<"S","a","t">>, <<"S","u","n">> >>

\* the instants the clock of the model takes
ClockDays == {5}
ClockTimes == {<<3, 0, 0>>, <<3, 0, 20>>, <<3, 1, 0>>}
Times == {[wk |-> w, day |-> d, hh |-> t[1], mm |-> t[2], ss |-> t[3]] :
            w \in 0..MaxWeek, d \in ClockDays, t \in ClockTimes}

Seconds(t) == (((t.wk * 7 + t.day) * 24 + t.hh) * 60 + t.mm) * 60 + t.ss
Minute(t) == <<t.wk, t.day, t.hh, t.mm>>
Minutes == {Minute(t) : t \in Times}

\* now_stamp(): strftime("%Y%m%d_%H%M%S")
now_stamp(t) ==
    <<"2", "0", "2", "6", "0", "1">> \o Fmt02(5 + 7 * t.wk + t.day) \o <<"_">>
        \o Fmt02(t.hh) \o Fmt02(t.mm) \o Fmt02(t.ss)

weekday_now(t) == DAYS[t.day + 1]

\* key_time of check_and_run_due_jobs
key_time(t) == weekday_now(t) \o <<"-">> \o Fmt02(t.hh) \o <<":">> \o Fmt02(t.mm)

-----------------------------------------------------------------------------
(* run_job *)

\* str.lower() on the mode texts
Lower(m) == CASE m = "Snapshot" -> "snapshot" [] m = "Mirror" -> "mirror" [] OTHER -> m

HasProfile(ps, name) == \E i \in 1..Len(ps) : ps[i].name = name
\* App.get_profile, where a profile of that name exists
get_profile(ps, name) ==
    ps[CHOOSE i \in 1..Len(ps) : ps[i].name = name /\ \A k \in 1..(i - 1) : ps[k].name # name]

\* remote_full of run_job
RemoteFull(p, job) ==
    LET remote_root == norm_remote(IF p.root = <<>> THEN <<"/">> ELSE p.root)
        src == Remove(Remove(Strip(job.remote_source), "\r"), "\n")
    IN  IF StartsWith(src, "/") THEN norm_remote(src)
        ELSE norm_remote(RStrip(remote_root, {"/"}) \o <<"/">> \o src)

LocalBase(job) == PathJoin(<<>>, job.local_target)
JobDir(p, job) == PathJoin(PathJoin(LocalBase(job), p.name), job.name)
MIRROR == <<"M", "I", "R", "R", "O", "R">>
\* a faulty dest_root that is stamped in every mode (sensitivity of C6)
DestRoot_AlwaysStamped(p, job, now) == PathJoin(JobDir(p, job), now_stamp(now))

\* dest_root of run_job
DestRoot(p, job, now) ==
    IF Lower(job.mode) = "snapshot"
    THEN PathJoin(JobDir(p, job), now_stamp(now))
    ELSE PathJoin(JobDir(p, job), MIRROR)

\* self._discord_post, called when the flag of the event is set
Notify(st, sett, kind, msg) == IF sett[kind] THEN EmitMsg(st, kind, msg) ELSE st

\* the source is a single file: the else branch of the try block
SingleFile(st, env, job, remote_full, dest_root) ==
    LeafTo(st, env, remote_full, job,
           safe_join_local(dest_root, Last(Split(remote_full, "/"))))

\* the transfer phase of the try block of run_job; d is the outcome of
\* cli.is_dir(remote_full)
TransferFrom(d, env, job, remote_full, dest_root) ==
    IF d.result
    THEN _download_dir(d.st, env, remote_full, dest_root, job, <<>>, 1)
    ELSE SingleFile(d.st, env, job, remote_full, dest_root)
Transfer(st, env, job, remote_full, dest_root) ==
    TransferFrom(is_dir(st, env, remote_full), env, job, remote_full, dest_root)

\* a faulty cleanup guard that does not test the mode (sensitivity of C11)
Cleanup_AnyMode(st, env, job, job_dir) ==
    IF job.keep_last # 0 /\ job.keep_last > 0
    THEN _cleanup_snapshots(st, env, job_dir, job.keep_last)
    ELSE st

\* the cleanup step of the try block of run_job
Cleanup(st, env, job, job_dir) ==
    IF Lower(job.mode) = "snapshot" /\ job.keep_last # 0 /\ job.keep_last > 0
    THEN _cleanup_snapshots(st, env, job_dir, job.keep_last)
    ELSE st

\* the end of the try block: the job is done
Done(st, sett) == Notify(Emit(st, "log_done", <<>>, <<>>), sett, "notify_success", "")

\* a faulty try block whose cleanup runs whether or not the transfer raised
\* (sensitivity of C9)
TryBlock_CleanupAlways(st, env, sett, p, job, paths) ==
    Then(Cleanup(Then(connect(st, env, p),
                      LAMBDA c : Transfer(c, env, job, paths.remote_full, paths.dest_root)),
                 env, job, paths.job_dir),
         LAMBDA k : Done(k, sett))

\* a faulty try block that swallows the error of connect() and goes on
\* (sensitivity of C10)
TryBlock_ConnectIgnored(st, env, sett, p, job, paths) ==
    Then(Then(Transfer([connect(st, env, p) EXCEPT !.exc = NoExc], env, job,
                       paths.remote_full, paths.dest_root),
              LAMBDA t : Cleanup(t, env, job, paths.job_dir)),
         LAMBDA k : Done(k, sett))

\* the try block of run_job, up to the first raised error
TryBlock(st, env, sett, p, job, paths) ==
    Then(Then(Then(connect(st, env, p),
                   LAMBDA c : Transfer(c, env, job, paths.remote_full, paths.dest_root)),
              LAMBDA t : Cleanup(t, env, job, paths.job_dir)),
         LAMBDA k : Done(k, sett))

\* the except and finally clauses of run_job
Finish(st, sett) ==
    close(IF ~Ok(st)
          THEN Notify(EmitMsg(st, "log_failed", st.exc), sett, "notify_failure", st.exc)
          ELSE st)

NewRunState(fs) ==
    [dirs |-> fs.dirs, files |-> fs.files, ev |-> <<>>, cwd |-> <<>>,
     ftp |-> FALSE, sock |-> 0, exc |-> NoExc, cdirs |-> {}]

\* the paths a run computes from its profile and job
RunPaths(p, job, now) ==
    [remote_full |-> RemoteFull(p, job), dest_root |-> DestRoot(p, job, now),
     job_dir |-> JobDir(p, job)]
NoPaths == [remote_full |-> <<>>, dest_root |-> <<>>, job_dir |-> <<>>]

\* the record the history keeps of a run that ended in state st
RunRecord(fs, st, j, job, env, trigger, outcome, paths) ==
    [job |-> j, trigger |-> trigger, env |-> env, outcome |-> outcome,
     profile |-> job.profile,
     dry_run |-> job.dry_run, include_subdirs |-> job.include_subdirs,
     mode |-> Lower(job.mode), keep_last |-> job.keep_last,
     remote_full |-> paths.remote_full, dest_root |-> paths.dest_root,
     job_dir |-> paths.job_dir,
     ev |-> st.ev, exc |-> st.exc, sock |-> st.sock, cdirs |-> st.cdirs,
     dirs0 |-> fs.dirs, files0 |-> fs.files, dirs1 |-> st.dirs, files1 |-> st.files]

\* run_job from its try statement on; st is the state the try block ended in
EndRun(fs, st, sett, j, job, env, trigger, paths) ==
    RunRecord(fs, Collect(Finish(st, sett), env), j, job, env, trigger,
              IF Ok(st) THEN "done" ELSE "failed", paths)

\* run_job from local_base.mkdir on
StartRun(fs, st, sett, j, job, env, trigger, p, paths) ==
    IF ~Ok(st) THEN RunRecord(fs, st, j, job, env, trigger, "raised", paths)
    ELSE EndRun(fs,
                TryBlock(Notify(Emit(st, "log_job", <<>>, <<>>), sett, "notify_start", ""),
                         env, sett, p, job, paths),
                sett, j, job, env, trigger, paths)

\* a faulty run_job that creates the local target before it looks the
\* profile up (sensitivity of C12)
run_job_MkdirFirst(fs, ps, sett, j, job, env, now, trigger) ==
    IF ~HasProfile(ps, job.profile)
    THEN RunRecord(fs, Emit(MkdirParents(NewRunState(fs), LocalBase(job)),
                            "log_no_profile", <<>>, <<>>),
                   j, job, env, trigger, "noprofile", NoPaths)
    ELSE StartRun(fs, MkdirParents(NewRunState(fs), LocalBase(job)), sett, j, job, env,
                  trigger, get_profile(ps, job.profile),
                  RunPaths(get_profile(ps, job.profile), job, now))

\* App.run_job: the record of the run.  outcome is "noprofile", "raised" (an
\* error left run_job), "done" or "failed"
run_job(fs, ps, sett, j, job, env, now, trigger) ==
    IF ~HasProfile(ps, job.profile)
    THEN RunRecord(fs, Emit(NewRunState(fs), "log_no_profile", <<>>, <<>>), j, job, env,
                   trigger, "noprofile", NoPaths)
    ELSE StartRun(fs, MkdirParents(NewRunState(fs), LocalBase(job)), sett, j, job, env,
                  trigger, get_profile(ps, job.profile),
                  RunPaths(get_profile(ps, job.profile), job, now))

-----------------------------------------------------------------------------
(* Configurations and environments *)

seg(c) == <<c>>
TheProfile == [name |-> seg("p"), root |-> <<"/">>, tls |-> FALSE]

Job(name, mode, days, hh, mm, subdirs, keep, dry) ==
    [name |-> name, enabled |-> TRUE, profile |-> seg("p"), mode |-> mode,
     remote_source |-> <<"/", "d">>, local_target |-> <<"/", "b">>, days |-> days,
     hour |-> hh, minute |-> mm, include_subdirs |-> subdirs, keep_last |-> keep,
     dry_run |-> dry]

\* /d holds the file a and the directory s, which holds the file b
SrvTree ==
    [dirs |-> {<<>>, <<seg("d")>>, <<seg("d"), seg("s")>>},
     files |-> {<<seg("d"), seg("a")>>, <<seg("d"), seg("s"), seg("b")>>},
     list |-> (<<>> :> <<seg("d")>>) @@ (<<seg("d")>> :> <<seg("a"), seg("s")>>)
                @@ (<<seg("d"), seg("s")>> :> <<seg("b")>>)]
\* the same tree after the file a was removed from the server
SrvLess ==
    [dirs |-> {<<>>, <<seg("d")>>, <<seg("d"), seg("s")>>},
     files |-> {<<seg("d"), seg("s"), seg("b")>>},
     list |-> (<<>> :> <<seg("d")>>) @@ (<<seg("d")>> :> <<seg("s")>>)
                @@ (<<seg("d"), seg("s")>> :> <<seg("b")>>)]
\* /d is a single file
SrvFile ==
    [dirs |-> {<<>>}, files |-> {<<seg("d")>>}, list |-> (<<>> :> <<seg("d")>>)]
\* the listing of /d names the file a and an entry ../x
SrvEvil ==
    [dirs |-> {<<>>, <<seg("d")>>},
     files |-> {<<seg("d"), seg("a")>>, <<seg("x")>>},
     list |-> (<<>> :> <<seg("d"), seg("x")>>)
                @@ (<<seg("d")>> :> <<seg("a"), <<".", ".", "/", "x">> >>)]

Env(srv, conn, mlsd, nlst, retrFail, rmFail, iter) ==
    [srv |-> srv, connect |-> conn, mlsd |-> mlsd, nlst |-> nlst,
     retrFail |-> retrFail, rmFail |-> rmFail, iterdir |-> iter, cwdBack |-> "ok",
     gc |-> "late"]

\* the environments a run of the tree walk may meet
WalkEnvs ==
    {Env(srv, "ok", "ok", "names", {}, {}, "asc") : srv \in {SrvTree, SrvLess, SrvFile, SrvEvil}}
    \cup {Env(SrvTree, c, "ok", "names", {}, {}, "asc") : c \in {"refused", "login"}}
    \cup {Env(srv, "ok", "fail", n, {}, {}, "asc") :
            srv \in {SrvTree, SrvEvil}, n \in {"names", "paths", "dots", "fail"}}
    \cup {Env(SrvTree, "ok", "partial", "names", {}, {}, "asc")}
    \cup {Env(SrvTree, "ok", "ok", "names", {f}, {}, "asc") :
            f \in {<<seg("d"), seg("a")>>, <<seg("d"), seg("s"), seg("b")>>}}
    \cup {[Env(SrvTree, "ok", "ok", "names", {}, {}, "asc") EXCEPT !.cwdBack = "fail"]}

\* the environments a run of the retention policy may meet
SnapEnvs ==
    {Env(SrvFile, "ok", "ok", "names", {}, {}, i) : i \in {"asc", "desc", "rot"}}
    \cup {Env(SrvFile, "refused", "ok", "names", {}, {}, "asc"),
          Env(SrvFile, "ok", "ok", "names", {<<seg("d")>>}, {}, "asc"),
          Env(SrvFile, "ok", "ok", "names", {}, {1}, "asc")}

\* the environments a connection attempt may meet: accepted, refused, or
\* the login refused on the established connection, the abandoned FTP object
\* being finalized at once or later
ConnEnvs ==
    {[Env(srv, c, "ok", "names", {}, {}, "asc") EXCEPT !.gc = g] :
        srv \in {SrvFile, SrvTree}, c \in {"ok", "refused", "login"},
        g \in {"prompt", "late"}}

\* the environments a scheduled run may meet
SchedEnvs ==
    {Env(SrvFile, "ok", "ok", "names", {}, {}, "asc"),
     Env(SrvFile, "refused", "ok", "names", {}, {}, "asc")}

Sat == DAYS[6]
Sun == DAYS[7]
SchedJobs ==
    << Job(seg("a"), "mirror", {Sat}, 3, 0, TRUE, 1, FALSE),
       Job(seg("b"), "snapshot", {Sat, Sun}, 3, 1, TRUE, 1, FALSE) >>

\* two jobs due in the same minute
MixJobs ==
    << Job(seg("a"), "mirror", {Sat}, 3, 0, TRUE, 1, FALSE),
       Job(seg("c"), "mirror", {Sat, Sun}, 3, 0, TRUE, 1, FALSE) >>

\* two jobs that share one name and are due in the same minute
TwinJobs ==
    << Job(seg("a"), "mirror", {Sat}, 3, 0, TRUE, 1, FALSE),
       Job(seg("a"), "mirror", {Sat, Sun}, 3, 0, TRUE, 1, TRUE) >>

\* the job of the tree walk: every mode, include_subdirs and dry_run, and
\* the same source typed as /d/.
WalkJobConfigs ==
    {<<Job(seg("j"), m, {Sat}, 3, 0, sub, 1, dry)>> :
        m \in {"snapshot", "mirror"}, sub \in BOOLEAN, dry \in BOOLEAN}
    \cup {<<[Job(seg("j"), "snapshot", {Sat}, 3, 0, TRUE, 1, dry)
             EXCEPT !.remote_source = <<"/", "d", "/", ".">>]>> : dry \in BOOLEAN}

\* the job of the retention policy: snapshot mode, every keep_last and dry_run
SnapJobConfigs ==
    {<<Job(seg("j"), "snapshot", {Sat}, 3, 0, TRUE, k, dry)>> :
        k \in {0, 1, 2}, dry \in BOOLEAN}

NotifyAll == [notify_start |-> TRUE, notify_success |-> TRUE, notify_failure |-> TRUE]

-----------------------------------------------------------------------------
(* The handlers *)

Saturate(n) == IF n >= MaxFired THEN MaxFired ELSE n + 1

RECURSIVE DueLoop(_, _, _, _)

\* a faulty loop whose next run starts from the files as they were before
\* the run r (sensitivity of C13)
DueRun_Overlapping(acc, r, i, job, now, env) ==
    DueLoop([dirs |-> acc.dirs, files |-> acc.files,
             lrk |-> [acc.lrk EXCEPT ![job.name] = key_time(now)],
             runs |-> Append(acc.runs, r),
             fired |-> [acc.fired EXCEPT ![<<i, Minute(now)>>] = Saturate(@)]],
            i + 1, now, env)

\* the last two statements of the loop body for a due job, whose run is r
DueRun(acc, r, i, job, now, env) ==
    IF r.outcome = "raised"
    THEN [dirs |-> r.dirs1, files |-> r.files1,
          lrk |-> [acc.lrk EXCEPT ![job.name] = key_time(now)],
          runs |-> Append(acc.runs, r),
          fired |-> [acc.fired EXCEPT ![<<i, Minute(now)>>] = Saturate(@)]]
    ELSE DueLoop([dirs |-> r.dirs1, files |-> r.files1,
                  lrk |-> [acc.lrk EXCEPT ![job.name] = key_time(now)],
                  runs |-> Append(acc.runs, r),
                  fired |-> [acc.fired EXCEPT ![<<i, Minute(now)>>] = Saturate(@)]],
                 i + 1, now, env)

\* the body of the loop for one job
DueJob(acc, i, job, now, env) ==
    IF \/ ~job.enabled
       \/ weekday_now(now) \notin job.days
       \/ job.hour # now.hh \/ job.minute # now.mm
       \/ acc.lrk[job.name] = key_time(now)
    THEN DueLoop(acc, i + 1, now, env)
    ELSE DueRun(acc, run_job(acc, profiles, settings, i, job, env, now, "tick"),
                i, job, now, env)

\* the for loop of check_and_run_due_jobs from the i-th job on;
\* acc = [dirs, files, lrk, runs, fired]
DueLoop(acc, i, now, env) ==
    IF i > Len(jobs) THEN acc ELSE DueJob(acc, i, jobs[i], now, env)

\* App.check_and_run_due_jobs
check_and_run_due_jobs(env) ==
    DueLoop([dirs |-> dirs, files |-> files, lrk |-> last_run_key, runs |-> <<>>,
             fired |-> fired], 1, clock, env)

\* App.start_scheduler
StartScheduler ==
    /\ pending < MaxPending
    /\ IF scheduler_running
       THEN UNCHANGED <<scheduler_running, pending>>
       ELSE scheduler_running' = TRUE /\ pending' = pending + 1
    /\ UNCHANGED <<clock, profiles, active_profile, jobs, settings, last_run_key, dirs, files, runs,
                   fired, ticked, call>>

\* App.stop_scheduler
StopScheduler ==
    /\ scheduler_running' = FALSE
    /\ UNCHANGED <<clock, profiles, active_profile, jobs, settings, last_run_key, pending, dirs, files,
                   runs, fired, ticked, call>>

\* the state a tick leaves, acc being the result of check_and_run_due_jobs
Ticked(acc) ==
    /\ last_run_key' = acc.lrk
    /\ dirs' = acc.dirs
    /\ files' = acc.files
    /\ runs' = acc.runs
    /\ fired' = acc.fired

\* a faulty _tick that does not test scheduler_running (sensitivity of C14)
Tick_IgnoringStop ==
    /\ pending > 0
    /\ \E env \in SchedEnvs : Ticked(check_and_run_due_jobs(env))
    /\ pending' = pending
    /\ ticked' = ticked \cup {Minute(clock)}
    /\ UNCHANGED <<clock, profiles, active_profile, jobs, settings, scheduler_running, call>>

\* App._tick: a registered callback fires
Tick ==
    /\ pending > 0
    /\ IF ~scheduler_running
       THEN /\ pending' = pending - 1
            /\ UNCHANGED <<last_run_key, dirs, files, runs, fired, ticked>>
       ELSE /\ \E env \in SchedEnvs : Ticked(check_and_run_due_jobs(env))
            /\ pending' = pending
            /\ ticked' = ticked \cup {Minute(clock)}
    /\ UNCHANGED <<clock, profiles, active_profile, jobs, settings, scheduler_running, call>>

\* the state a manual run r leaves
Ran(r) ==
    /\ dirs' = r.dirs1
    /\ files' = r.files1
    /\ runs' = <<r>>

\* App.run_selected_job_now, with a job selected and the question answered
\* yes; the run meets one of the environments envs
RunSelectedJobNow(envs) ==
    /\ \E idx \in 1..Len(jobs), env \in envs :
          Ran(run_job([dirs |-> dirs, files |-> files], profiles, settings, idx,
                      jobs[idx], env, clock, "manual"))
    /\ UNCHANGED <<clock, profiles, active_profile, jobs, settings, scheduler_running, last_run_key,
                   pending, fired, ticked, call>>

\* the job job_save builds from the form: the fields of the selected job as
\* on_job_select shows them, with the mode, keep and profile fields as typed
\* and the dry-run box as set
UnnamedJob == <<"U", "n", "n", "a", "m", "e", "d", " ", "J", "o", "b">>
FormJob(job, mode, keep, profile, dry) ==
    [job EXCEPT !.name = IF Strip(job.name) = <<>> THEN UnnamedJob ELSE Strip(job.name),
                !.profile = Strip(profile),
                !.mode = IF mode = "" THEN "snapshot" ELSE mode,
                !.remote_source = IF Strip(job.remote_source) = <<>> THEN <<"/">>
                                  ELSE Strip(job.remote_source),
                !.keep_last = keep,
                !.dry_run = dry]

\* App.job_save on the job idx: a keep below 0 is refused with an error box
job_save(idx, mode, keep, profile, dry) ==
    IF keep < 0 THEN jobs
    ELSE [jobs EXCEPT ![idx] = FormJob(jobs[idx], mode, keep, profile, dry)]

FormModes == {"snapshot", "mirror"}
FormKeeps == {-1, 0, 1}
FormProfiles == {seg("p"), seg("q")}
JobSaveWith(modes, keeps, names, boxes) ==
    /\ \E idx \in 1..Len(jobs), mode \in modes, keep \in keeps, profile \in names,
          dry \in boxes :
          jobs' = job_save(idx, mode, keep, profile, dry)
    /\ UNCHANGED <<clock, profiles, active_profile, settings, scheduler_running, last_run_key, pending,
                   dirs, files, runs, fired, ticked, call>>

\* job_save with the mode, keep and profile fields edited
JobSave == JobSaveWith(FormModes, FormKeeps, FormProfiles, {FALSE})

\* job_save of a snapshot job with the keep field and the dry-run box edited
JobSaveDry == JobSaveWith({"snapshot"}, FormKeeps, {seg("p")}, BOOLEAN)

\* str(n) for n >= 0
RECURSIVE Str(_)
Str(n) == IF n < 10 THEN Digit(n) ELSE Str(n \div 10) \o Digit(n % 10)

\* the name profile_new gives the profile it appends
NewProfileName(ps) == <<"P", "r", "o", "f", "i", "l", "e", "_">> \o Str(Len(ps) + 1)

\* Profile(n, "", 21, "", "", False, "/")
NewProfile(n) == [name |-> n, root |-> <<"/">>, tls |-> FALSE]

\* App.profile_new
ProfileNew ==
    /\ Len(profiles) < MaxProfiles
    /\ profiles' = Append(profiles, NewProfile(NewProfileName(profiles)))
    /\ active_profile' = NewProfileName(profiles)
    /\ UNCHANGED <<clock, jobs, settings, scheduler_running, last_run_key, pending,
                   dirs, files, runs, fired, ticked, call>>

\* del self.profiles[idx]
DeleteAt(ps, idx) == SubSeq(ps, 1, idx - 1) \o SubSeq(ps, idx + 1, Len(ps))

\* App.profile_delete, with the profile idx selected and the question
\* answered yes
ProfileDelete ==
    /\ \E idx \in 1..Len(profiles) :
          /\ profiles' = DeleteAt(profiles, idx)
          /\ active_profile' =
                IF active_profile # profiles[idx].name THEN active_profile
                ELSE IF DeleteAt(profiles, idx) # <<>>
                     THEN DeleteAt(profiles, idx)[1].name
                     ELSE None
    /\ UNCHANGED <<clock, jobs, settings, scheduler_running, last_run_key, pending,
                   dirs, files, runs, fired, ticked, call>>

\* the profile profile_save builds from the form
Unnamed == <<"U", "n", "n", "a", "m", "e", "d">>
FormProfile(name) == NewProfile(IF Strip(name) = <<>> THEN Unnamed ELSE Strip(name))

\* App.profile_save with nothing selected in the list: the profile is
\* appended unless its name is taken
SaveAppended(p) ==
    IF HasProfile(profiles, p.name)
    THEN UNCHANGED <<profiles, active_profile>>
    ELSE profiles' = Append(profiles, p) /\ active_profile' = p.name

\* App.profile_save with the profile i selected: the profile replaces it
\* unless its name is another profile's
SaveSelected(i, p) ==
    IF p.name # profiles[i].name /\ HasProfile(profiles, p.name)
    THEN UNCHANGED <<profiles, active_profile>>
    ELSE /\ profiles' = [profiles EXCEPT ![i] = p]
         /\ active_profile' = IF active_profile = profiles[i].name THEN p.name
                               ELSE active_profile

\* the names typed into the form
FormNames == {seg("p"), <<"q", " ">>, <<>>, <<"P", "r", "o", "f", "i", "l", "e", "_", "2">>}

\* App.profile_save
ProfileSave ==
    /\ \E name \in FormNames :
          \/ Len(profiles) < MaxProfiles /\ SaveAppended(FormProfile(name))
          \/ \E i \in 1..Len(profiles) : SaveSelected(i, FormProfile(name))
    /\ UNCHANGED <<clock, jobs, settings, scheduler_running, last_run_key, pending,
                   dirs, files, runs, fired, ticked, call>>

\* time passes
Advance ==
    /\ \E t \in Times :
         /\ Seconds(t) > Seconds(clock)
         /\ \A u \in Times : ~(Seconds(clock) < Seconds(u) /\ Seconds(u) < Seconds(t))
         /\ clock' = t
    /\ UNCHANGED <<profiles, active_profile, jobs, settings, scheduler_running, last_run_key, pending,
                   dirs, files, runs, fired, ticked, call>>

-----------------------------------------------------------------------------
(* Calls of the helpers *)

\* the texts norm_remote is called with: every text of at most MaxLen
\* characters of NormAlphabet, and None
NormAlphabet == {"/", "\\", "\r", "\n", "a"}
TextsUpTo(n) == UNION {[1..k -> NormAlphabet] : k \in 0..n}

\* a call norm_remote(p) and what it returned
NormCall(p) == [fn |-> "norm_remote", arg |-> p, out |-> norm_remote(p)]
CallNormRemote ==
    /\ \E p \in TextsUpTo(MaxLen) \cup {None} : call' = NormCall(p)
    /\ UNCHANGED <<clock, profiles, active_profile, jobs, settings, scheduler_running, last_run_key,
                   pending, dirs, files, runs, fired, ticked>>

\* the servers, listing strategies and paths list_dir is called with
ListEnvs ==
    {Env(srv, "ok", m, n, {}, {}, "asc") :
        srv \in {SrvTree, SrvEvil},
        m \in {"ok", "fail", "partial", "partial_last"},
        n \in {"names", "paths", "dots", "fail"}}
ListPaths == {<<"/">>, <<"/", "d">>, <<"/", "d", "/">>, <<"/", "d", "/", "s">>, <<"/", "x">>}

\* a call list_dir(path) on a connection to env and what it returned
ListCall(env, path) == [fn |-> "list_dir", env |-> env, path |-> path,
                        out |-> list_dir(env, path)]
CallListDir ==
    /\ \E env \in ListEnvs, path \in ListPaths : call' = ListCall(env, path)
    /\ UNCHANGED <<clock, profiles, active_profile, jobs, settings, scheduler_running, last_run_key,
                   pending, dirs, files, runs, fired, ticked>>

\* the servers, working directories and paths is_dir is called with; the
\* server may refuse the first or every change back to the working directory
IsDirEnvs ==
    {[Env(srv, "ok", "ok", "names", {}, {}, "asc") EXCEPT !.cwdBack = b] :
        srv \in {SrvTree, SrvFile}, b \in {"ok", "once", "fail"}}
IsDirPaths == {<<"/">>, <<"/", "d">>, <<"/", "d", "/", "s">>, <<"/", "d", "/", "a">>, <<"/", "x">>}
WorkingDirs == {<<"/">>, <<"/", "d">>}

\* the client connected to env, its working directory being cur
Connected(env, cur) ==
    [NewRunState([dirs |-> dirs, files |-> files]) EXCEPT !.ftp = TRUE, !.sock = 1,
                                                          !.cwd = cur]

\* a call is_dir(path), what it returned and the working directory it left
IsDirCall(env, path, cur, d) ==
    [fn |-> "is_dir", env |-> env, path |-> path, cur |-> cur,
     out |-> d.result, cwd |-> d.st.cwd]
CallIsDir ==
    /\ \E env \in IsDirEnvs, path \in IsDirPaths, cur \in WorkingDirs :
          /\ SrvIsDir(env, cur)
          /\ call' = IsDirCall(env, path, cur, is_dir(Connected(env, cur), env, path))
    /\ UNCHANGED <<clock, profiles, active_profile, jobs, settings, scheduler_running, last_run_key,
                   pending, dirs, files, runs, fired, ticked>>

\* App.test_conn on the profile selected in the combo box: the state the
\* client is left in, the box shown, and the state a further close() leaves
TestConnCall(env, name, st) ==
    [fn |-> "test_conn", env |-> env, profile |-> name,
     box |-> IF Ok(st) THEN "OK" ELSE "Failed",
     raised |-> st.exc, exc |-> close(st).exc, closed |-> close(st).sock,
     sock |-> Collect(close(st), env).sock, ftp |-> close(st).ftp,
     again |-> [exc |-> close(close(st)).exc, sock |-> close(close(st)).sock,
                ftp |-> close(close(st)).ftp]]
TestConn ==
    /\ \E env \in ConnEnvs, name \in FormProfiles :
          call' = IF ~HasProfile(profiles, Strip(name))
                  THEN [fn |-> "test_conn", env |-> env, profile |-> name,
                        box |-> "No profile"]
                  ELSE TestConnCall(env, name,
                                    connect(NewRunState([dirs |-> dirs, files |-> files]),
                                            env, get_profile(profiles, Strip(name))))
    /\ UNCHANGED <<clock, profiles, active_profile, jobs, settings, scheduler_running, last_run_key,
                   pending, dirs, files, runs, fired, ticked>>

-----------------------------------------------------------------------------
(* Specifications *)

JobNames == {jobs[i].name : i \in 1..Len(jobs)}
FirstTime == CHOOSE t \in Times : \A u \in Times : Seconds(t) <= Seconds(u)

\* no helper has been called
NoCall == [fn |-> "none"]

InitCommon ==
    /\ profiles = <<TheProfile>>
    /\ active_profile = TheProfile.name
    /\ settings = NotifyAll
    /\ scheduler_running = FALSE
    /\ pending = 0
    /\ dirs = {<<>>, <<seg("b")>>}
    /\ files = {}
    /\ runs = <<>>
    /\ ticked = {}
    /\ call = NoCall

\* the scheduler with two jobs
InitSched ==
    /\ InitCommon
    /\ clock = FirstTime
    /\ jobs = SchedJobs
    /\ last_run_key = [n \in {SchedJobs[i].name : i \in 1..Len(SchedJobs)} |-> None]
    /\ fired = [x \in (1..Len(SchedJobs)) \X Minutes |-> 0]

NextSched == StartScheduler \/ StopScheduler \/ Tick \/ Advance

SpecSched == InitSched /\ [][NextSched]_vars

\* the scheduler and the Run Selected Job Now button, with two jobs that are
\* due in the same minute
InitMix ==
    /\ InitCommon
    /\ clock = FirstTime
    /\ jobs = MixJobs
    /\ last_run_key = [n \in {MixJobs[i].name : i \in 1..Len(MixJobs)} |-> None]
    /\ fired = [x \in (1..Len(MixJobs)) \X Minutes |-> 0]

NextMix ==
    StartScheduler \/ StopScheduler \/ Tick \/ RunSelectedJobNow(SchedEnvs) \/ Advance

SpecMix == InitMix /\ [][NextMix]_vars

\* the scheduler and the Run Selected Job Now button, with two jobs of one
\* name
InitTwin ==
    /\ InitCommon
    /\ clock = FirstTime
    /\ jobs = TwinJobs
    /\ last_run_key = [n \in {TwinJobs[i].name : i \in 1..Len(TwinJobs)} |-> None]
    /\ fired = [x \in (1..Len(TwinJobs)) \X Minutes |-> 0]

NextTwin ==
    StartScheduler \/ StopScheduler \/ Tick \/ RunSelectedJobNow(SchedEnvs) \/ Advance

SpecTwin == InitTwin /\ [][NextTwin]_vars

InitOneJob ==
    /\ InitCommon
    /\ last_run_key = [n \in {seg("j")} |-> None]
    /\ fired = [x \in {1} \X Minutes |-> 0]

\* the tree walk: one job, started by hand any number of times within one
\* second, against every server and fault
InitWalk ==
    /\ InitOneJob
    /\ clock = FirstTime
    /\ jobs \in WalkJobConfigs

NextWalk == RunSelectedJobNow(WalkEnvs)

SpecWalk == InitWalk /\ [][NextWalk]_vars

\* the retention policy: one snapshot job, started by hand any number of
\* times on a clock that has RunHorizon further instants
InitSnap ==
    /\ InitOneJob
    /\ clock \in {t \in Times :
                    Cardinality({u \in Times : Seconds(u) > Seconds(t)}) = RunHorizon}
    /\ jobs \in SnapJobConfigs

NextSnap == RunSelectedJobNow(SnapEnvs) \/ Advance

SpecSnap == InitSnap /\ [][NextSnap]_vars

\* the environments a run of an edited job may meet
EditEnvs ==
    {Env(SrvFile, "ok", "ok", "names", {}, {}, "asc"),
     Env(SrvFile, "ok", "ok", "names", {<<seg("d")>>}, {}, "asc")}

\* editing: one job, whose mode, keep and profile fields are saved any number
\* of times between runs; the local target does not exist yet
InitEdit ==
    /\ profiles = <<TheProfile>>
    /\ active_profile = TheProfile.name
    /\ settings = NotifyAll
    /\ scheduler_running = FALSE
    /\ pending = 0
    /\ dirs = {<<>>}
    /\ files = {}
    /\ runs = <<>>
    /\ ticked = {}
    /\ call = NoCall
    /\ last_run_key = [n \in {seg("j")} |-> None]
    /\ fired = [x \in {1} \X Minutes |-> 0]
    /\ clock \in {t \in Times :
                    Cardinality({u \in Times : Seconds(u) > Seconds(t)}) = RunHorizon}
    /\ jobs = <<Job(seg("j"), "snapshot", {Sat}, 3, 0, TRUE, 1, FALSE)>>

NextEdit == RunSelectedJobNow(EditEnvs) \/ JobSave \/ Advance

SpecEdit == InitEdit /\ [][NextEdit]_vars

\* the helpers, each called with every input of its bounded domain
InitCalls ==
    /\ InitOneJob
    /\ clock = FirstTime
    /\ jobs = <<Job(seg("j"), "snapshot", {Sat}, 3, 0, TRUE, 1, FALSE)>>

NextCalls == CallNormRemote \/ CallListDir \/ CallIsDir

SpecCalls == InitCalls /\ [][NextCalls]_vars

\* connections: one job run by hand, and the Test Connection button
InitConn ==
    /\ InitOneJob
    /\ clock = FirstTime
    /\ jobs \in {<<Job(seg("j"), m, {Sat}, 3, 0, TRUE, 1, dry)>> :
                    m \in {"snapshot", "mirror"}, dry \in BOOLEAN}

NextConn == RunSelectedJobNow(ConnEnvs) \/ TestConn

SpecConn == InitConn /\ [][NextConn]_vars

\* outcomes and notifications: one job started by hand under every setting
\* of the three notification flags, the local target being a directory or
\* the path of an existing file
NotifyEnvs ==
    {Env(SrvFile, "ok", "ok", "names", {}, {}, "asc"),
     Env(SrvFile, "refused", "ok", "names", {}, {}, "asc"),
     Env(SrvFile, "ok", "ok", "names", {<<seg("d")>>}, {}, "asc"),
     Env(SrvFile, "ok", "ok", "names", {}, {1}, "asc")}

InitNotify ==
    /\ profiles = <<TheProfile>>
    /\ active_profile = TheProfile.name
    /\ settings \in [{"notify_start", "notify_success", "notify_failure"} -> BOOLEAN]
    /\ scheduler_running = FALSE
    /\ pending = 0
    /\ \/ dirs = {<<>>, <<seg("b")>>} /\ files = {}
       \/ dirs = {<<>>} /\ files = {<<seg("b")>>}
    /\ runs = <<>>
    /\ ticked = {}
    /\ call = NoCall
    /\ last_run_key = [n \in {seg("j")} |-> None]
    /\ fired = [x \in {1} \X Minutes |-> 0]
    /\ clock \in {t \in Times :
                    Cardinality({u \in Times : Seconds(u) > Seconds(t)}) = RunHorizon}
    /\ jobs \in {<<Job(seg("j"), m, {Sat}, 3, 0, TRUE, 1, FALSE)>> :
                    m \in {"snapshot", "mirror"}}

NextNotify == RunSelectedJobNow(NotifyEnvs) \/ Advance

SpecNotify == InitNotify /\ [][NextNotify]_vars

\* dry runs between real runs: one snapshot job whose keep_last and dry_run
\* are edited between runs
InitDry ==
    /\ InitOneJob
    /\ clock \in {t \in Times :
                    Cardinality({u \in Times : Seconds(u) > Seconds(t)}) = RunHorizon}
    /\ jobs = <<Job(seg("j"), "snapshot", {Sat}, 3, 0, TRUE, 1, FALSE)>>

NextDry == RunSelectedJobNow(EditEnvs) \/ JobSaveDry \/ Advance

SpecDry == InitDry /\ [][NextDry]_vars

\* the profile list edited on the Profiles tab
InitProfiles ==
    /\ InitOneJob
    /\ clock = FirstTime
    /\ jobs = <<Job(seg("j"), "snapshot", {Sat}, 3, 0, TRUE, 1, FALSE)>>

NextProfiles == ProfileNew \/ ProfileDelete \/ ProfileSave

SpecProfiles == InitProfiles /\ [][NextProfiles]_vars

-----------------------------------------------------------------------------
(* The scheduler: C1, C2 *)

\* job i is scheduled for the minute m = <<wk, day, hh, mm>>
Due(i, m) ==
    /\ jobs[i].enabled
    /\ DAYS[m[2] + 1] \in jobs[i].days
    /\ jobs[i].hour = m[3]
    /\ jobs[i].minute = m[4]

JobIdx == 1..Len(jobs)

\* C1: in every minute in which a tick evaluated the jobs, a job scheduled
\* for that minute was triggered exactly once by the ticks of that minute,
\* and a job not scheduled for it (as in the minute that follows) not at all.
C1_OncePerDueMinute ==
    \A i \in JobIdx : \A m \in ticked :
        /\ Due(i, m) => fired[<<i, m>>] = 1
        /\ ~Due(i, m) => fired[<<i, m>>] = 0

\* C2: a job enabled on exactly one weekday that was triggered at its time
\* in one week is triggered again in the same minute of the next week, when
\* a tick evaluates the jobs in that minute.
C2_FiresAgainNextWeek ==
    \A i \in JobIdx : \A m \in ticked : \A n \in ticked :
        (/\ Cardinality(jobs[i].days) = 1
         /\ Due(i, m)
         /\ fired[<<i, m>>] >= 1
         /\ n = <<m[1] + 1, m[2], m[3], m[4]>>)
        => fired[<<i, n>>] >= 1

-----------------------------------------------------------------------------
(* Runs: C3, C6 .. C10 *)

RunIdx == 1..Len(runs)
EvIdx(r, ops) == {k \in 1..Len(r.ev) : r.ev[k].op \in ops}
Created(r) == (r.dirs1 \cup r.files1) \ (r.dirs0 \cup r.files0)
Removed(r) == (r.dirs0 \cup r.files0) \ (r.dirs1 \cup r.files1)

\* the remote files below the source of run r, and the entries of a
\* remote directory
RemoteFiles(r) == {f \in r.env.srv.files : IsUnder(f, SrvResolve(r.remote_full))}
RemoteChildren(srv, d) == {x \in srv.dirs \cup srv.files : x # <<>> /\ Parent(x) = d}
SourceIsDir(r) == r.outcome # "noprofile" /\ SrvIsDir(r.env, r.remote_full)

\* the environment of run r lists for every directory exactly its entries,
\* and lets is_dir return to the working directory
ListsEntries(r) ==
    /\ r.env.cwdBack = "ok"
    /\ \A d \in r.env.srv.dirs :
          Range(r.env.srv.list[d]) = {Last(x) : x \in RemoteChildren(r.env.srv, d)}
    /\ r.env.mlsd = "ok" \/ r.env.nlst \in {"names", "paths"}

\* C3: every local path handed to download_file is dest_root or lies below
\* it, a run creates nothing outside dest_root and its ancestors, and an
\* entry whose path resolves outside dest_root ends the run with ValueError
\* before anything is downloaded or created for it.
C3_DownloadsStayInDestRoot ==
    \A i \in RunIdx :
        LET r == runs[i]
        IN  /\ \A k \in EvIdx(r, {"download_file"}) : IsUnder(r.ev[k].l, r.dest_root)
            /\ \A x \in Created(r) : IsUnder(x, r.dest_root) \/ x \in Parents(r.dest_root)
            /\ \A k \in EvIdx(r, {"unsafe"}) :
                  /\ ~IsUnder(r.ev[k].l, r.dest_root)
                  /\ r.ev[k].l \notin Created(r)
                  /\ r.outcome = "failed" /\ r.exc = "ValueError"
                  /\ \A m \in EvIdx(r, {"download_file", "log_downloaded"}) : m < k

\* C3 witness: a run that downloaded a file and then met the entry ../x
C3_Witness ==
    \E i \in RunIdx :
        /\ EvIdx(runs[i], {"unsafe"}) # {}
        /\ EvIdx(runs[i], {"download_file"}) # {}
        /\ runs[i].env.srv = SrvEvil

\* C6: a mirror-mode run uses the destination root
\* <local_target>/<profile.name>/<job.name>/MIRROR and removes nothing:
\* whatever existed before the run exists after it.
C6_MirrorOneRootNoDeletion ==
    \A i \in RunIdx :
        LET r == runs[i]
        IN  (r.mode # "snapshot" /\ r.outcome # "noprofile") =>
                /\ r.dest_root = <<seg("b"), seg("p"), jobs[r.job].name, MIRROR>>
                /\ \A k \in EvIdx(r, {"download_file"}) : IsUnder(r.ev[k].l, r.dest_root)
                /\ Removed(r) = {}
                /\ EvIdx(r, {"rmtree"}) = {}

\* C6 witness: a mirror run that ended Done on a server that no longer has
\* the file a, which an earlier run had written
C6_Witness ==
    \E i \in RunIdx :
        /\ runs[i].mode = "mirror" /\ runs[i].outcome = "done" /\ ~runs[i].dry_run
        /\ runs[i].env.srv = SrvLess
        /\ <<seg("b"), seg("p"), seg("j"), MIRROR, seg("a")>> \in runs[i].files0
        /\ <<seg("b"), seg("p"), seg("j"), MIRROR, seg("a")>> \in files

\* the per-file log entries of run r for the remote file f
LogEntries(r, f) == {k \in EvIdx(r, {"log_downloaded"}) : SrvResolve(r.ev[k].r) = f}
NoWritesUnderDestRoot(r) ==
    /\ EvIdx(r, {"download_file"}) = {}
    /\ \A x \in Created(r) : ~IsUnder(x, r.dest_root)
OneEntryPerFile(r) ==
    /\ \A f \in RemoteFiles(r) : Cardinality(LogEntries(r, f)) = 1
    /\ Cardinality(EvIdx(r, {"log_downloaded"})) = Cardinality(RemoteFiles(r))

C8_SubdirsSkipped ==
    \A i \in RunIdx :
        LET r == runs[i]
            src == SrvResolve(r.remote_full)
        IN  (/\ ~r.include_subdirs /\ ~r.dry_run /\ SourceIsDir(r)
             /\ r.env.connect = "ok" /\ r.env.retrFail = {} /\ ListsEntries(r)
             /\ \E d \in r.env.srv.dirs : d # <<>> /\ Parent(d) = src) =>
                /\ \A k \in EvIdx(r, {"download_file"}) : ~SrvIsDir(r.env, r.ev[k].r)
                /\ {SrvResolve(r.ev[k].r) : k \in EvIdx(r, {"download_file"})}
                      = RemoteChildren(r.env.srv, src) \cap r.env.srv.files
                /\ r.outcome = "done"

TransferErrors == {"error_perm RETR", "ValueError", "FileExistsError", "IsADirectoryError"}

\* C9: a run in which a download or a path resolution raised during the
\* tree walk is Failed: the failing call is followed by nothing but the one
\* failure report, its notification and close (no listing, no download, no
\* cleanup, no Done), and every file the run had downloaded is on disk.
C9_MidWalkFailure ==
    \A i \in RunIdx :
        LET r == runs[i]
        IN  (r.exc \in TransferErrors /\ SourceIsDir(r)) =>
                /\ r.outcome = "failed"
                /\ Cardinality(EvIdx(r, {"log_failed"})) = 1
                /\ EvIdx(r, {"cleanup", "rmtree", "log_done", "notify_success"}) = {}
                /\ \A f \in EvIdx(r, {"log_failed"}) :
                      /\ r.ev[f - 1].op \in {"download_file", "unsafe"}
                      /\ \A k \in (f + 1)..Len(r.ev) :
                            r.ev[k].op \in {"notify_failure", "close"}
                /\ \A k \in EvIdx(r, {"log_downloaded"}) : r.dry_run \/ r.ev[k].l \in r.files1
                /\ Removed(r) = {}

\* C9 witness: the download of the nested file b failed after the file a
\* had been downloaded
C9_Witness ==
    \E i \in RunIdx :
        /\ runs[i].exc = "error_perm RETR" /\ runs[i].outcome = "failed"
        /\ ~runs[i].dry_run
        /\ runs[i].env.retrFail = {<<seg("d"), seg("s"), seg("b")>>}
        /\ \E k \in EvIdx(runs[i], {"log_downloaded"}) : runs[i].ev[k].l \in files

\* C10: when connect() fails the run is Failed with the connection error
\* text, and nothing else was done: no directory check, listing, download
\* or cleanup, and nothing is created at or below the job directory nor
\* removed anywhere.
C10_ConnectFailure ==
    \A i \in RunIdx :
        LET r == runs[i]
        IN  (r.outcome # "noprofile" /\ r.env.connect # "ok") =>
                /\ r.outcome = "failed"
                /\ r.exc \in {"ConnectionRefusedError", "error_perm login"}
                /\ \E f \in EvIdx(r, {"log_failed"}) : r.ev[f].msg = r.exc
                /\ EvIdx(r, {"is_dir", "list_dir", "download_file", "log_downloaded",
                             "cleanup", "rmtree", "log_done"}) = {}
                /\ Created(r) \subseteq Parents(r.job_dir) /\ Removed(r) = {}

\* C10 witness: a run whose login failed on an established connection
C10_Witness ==
    \E i \in RunIdx : runs[i].env.connect = "login" /\ runs[i].outcome = "failed"

-----------------------------------------------------------------------------
(* Retention: C4, C5 *)

\* the snapshot directories of a job directory among the directories ds
Snapshots(ds, job_dir) == {x \in ds : Len(x) = Len(job_dir) + 1 /\ Parent(x) = job_dir}
CleanedUp(r) == EvIdx(r, {"cleanup"}) # {} /\ EvIdx(r, {"warn_cleanup"}) = {}
KeptGreatest(before, after, n) ==
    /\ after \subseteq before
    /\ Cardinality(after) = n
    /\ \A a \in after : \A b \in before \ after : StrLess(Last(b), Last(a))

\* C4: with keep_last = N > 0 and no deletion failure, a cleanup that finds
\* M > N snapshot directories leaves exactly the N with the greatest names
\* and removes the others, in whatever order the directory is enumerated;
\* with M <= N it removes nothing.
C4_CleanupKeepsGreatest ==
    \A i \in RunIdx :
        LET r == runs[i]
            before == Snapshots(r.cdirs, r.job_dir)
            after == Snapshots(r.dirs1, r.job_dir)
        IN  (CleanedUp(r) /\ r.keep_last > 0) =>
                IF Cardinality(before) > r.keep_last
                THEN /\ KeptGreatest(before, after, r.keep_last)
                     /\ Cardinality(EvIdx(r, {"rmtree"})) = Cardinality(before) - r.keep_last
                ELSE after = before /\ EvIdx(r, {"rmtree"}) = {}

\* C4 witness: a cleanup that found three snapshots, enumerated neither
\* ascending nor descending, and kept one
C4_Witness ==
    \E i \in RunIdx :
        /\ CleanedUp(runs[i]) /\ runs[i].keep_last = 1 /\ runs[i].env.iterdir = "rot"
        /\ Cardinality(Snapshots(runs[i].cdirs, runs[i].job_dir)) = 3
        /\ Cardinality(Snapshots(runs[i].dirs1, runs[i].job_dir)) = 1

\* C5: at the end of every snapshot-mode run with keep_last = N > 0 that
\* ends Done without a deletion failure, the job directory holds at most N
\* snapshot directories.
C5_BoundedRetention ==
    \A i \in RunIdx :
        (/\ runs[i].mode = "snapshot" /\ runs[i].keep_last > 0
         /\ runs[i].outcome = "done" /\ EvIdx(runs[i], {"warn_cleanup"}) = {})
        => Cardinality(Snapshots(runs[i].dirs1, runs[i].job_dir)) <= runs[i].keep_last

\* C5 witness: a run that ended Done at the bound, after failed runs had
\* left the job directory holding N snapshots already
C5_Witness ==
    \E i \in RunIdx :
        /\ runs[i].mode = "snapshot" /\ runs[i].keep_last = 2 /\ runs[i].outcome = "done"
        /\ Cardinality(Snapshots(runs[i].dirs0, runs[i].job_dir)) = 2
        /\ Cardinality(Snapshots(runs[i].cdirs, runs[i].job_dir)) = 3
        /\ Cardinality(Snapshots(dirs, runs[i].job_dir)) = 2

-----------------------------------------------------------------------------
(* The cleanup guard and the profile lookup: C11, C12 *)

\* C11: a run enters the cleanup only when the job's mode is snapshot and
\* keep_last > 0; a run of a mirror job, or of a job with keep_last <= 0,
\* removes no directory and no file.
C11_CleanupOnlyForSnapshotKeep ==
    \A i \in RunIdx :
        LET r == runs[i]
        IN  /\ EvIdx(r, {"cleanup", "rmtree", "warn_cleanup"}) # {}
                => (r.mode = "snapshot" /\ r.keep_last > 0)
            /\ (r.mode # "snapshot" \/ r.keep_last <= 0)
                => (Snapshots(r.dirs0, r.job_dir) \subseteq r.dirs1 /\ Removed(r) = {})

\* C11 witness: a mirror run with keep_last 1 that ended Done while the job
\* directory held two snapshots of earlier runs
C11_Witness ==
    \E i \in RunIdx :
        /\ runs[i].mode = "mirror" /\ runs[i].keep_last = 1 /\ runs[i].outcome = "done"
        /\ Cardinality(Snapshots(runs[i].dirs0, runs[i].job_dir) \ {runs[i].dest_root}) = 2
        /\ Snapshots(runs[i].dirs0, runs[i].job_dir) \subseteq dirs

\* C12: when the job's profile name matches no profile, run_job logs the
\* profile-not-found error and does nothing else: no connection is opened,
\* nothing is created on the local filesystem and nothing is removed.
C12_NoProfileNoEffect ==
    \A i \in RunIdx :
        LET r == runs[i]
        IN  (~HasProfile(profiles, r.profile) \/ r.outcome = "noprofile") =>
                /\ r.outcome = "noprofile"
                /\ Len(r.ev) = 1 /\ r.ev[1].op = "log_no_profile"
                /\ r.sock = 0
                /\ r.dirs1 = r.dirs0 /\ r.files1 = r.files0

\* C12 witness: a run of a job saved with the unknown profile q, before the
\* local target was ever created
C12_Witness ==
    \E i \in RunIdx :
        /\ runs[i].outcome = "noprofile" /\ runs[i].profile = seg("q")
        /\ dirs = {<<>>} /\ files = {}

-----------------------------------------------------------------------------
(* Ticks and manual runs: C13, C14 *)

\* each run of q starts from the files the run before it left
Sequential(q) ==
    \A i \in 2..Len(q) : q[i].dirs0 = q[i - 1].dirs1 /\ q[i].files0 = q[i - 1].files1
\* the run r has ended
Finished(r) ==
    /\ r.outcome \in {"done", "failed", "noprofile"}
    /\ r.outcome # "noprofile" => r.ev[Len(r.ev)].op = "close"

C14_StoppedSchedulerFiresNothing ==
    [][~scheduler_running =>
          /\ fired' = fired
          /\ ticked' = ticked
          /\ \A i \in 1..Len(runs') : runs'[i].trigger = "tick" => runs' = runs
          /\ \A i \in 1..Len(runs') : Finished(runs'[i])]_vars

\* C14 witness: the scheduler was stopped with a callback registered, which
\* then fired in a minute in which job 1 is due, and ran nothing
C14_Witness ==
    /\ ~scheduler_running /\ pending = 0 /\ ticked # {}
    /\ Minute(clock) \notin ticked
    /\ Due(1, Minute(clock)) /\ fired[<<1, Minute(clock)>>] = 0

-----------------------------------------------------------------------------
(* The single file: C15 *)

\* C15: when the remote source is not a directory, the run neither enters
\* nor lists a directory, and the one local path it resolves, downloads to
\* and logs is dest_root/<last segment of remote_full>, a path directly
\* inside dest_root and not dest_root itself.
C15_SingleFileTarget ==
    \A i \in RunIdx :
        LET r == runs[i]
        IN  (/\ r.outcome # "noprofile" /\ r.env.connect = "ok"
             /\ ~SrvIsDir(r.env, r.remote_full)) =>
                /\ EvIdx(r, {"log_entering", "list_dir"}) = {}
                /\ Cardinality(EvIdx(r, {"download_file"})) <= 1
                /\ \A k \in EvIdx(r, {"download_file", "log_downloaded", "unsafe"}) :
                      /\ r.ev[k].l = PathJoin(r.dest_root, Last(Split(r.remote_full, "/")))
                      /\ Parent(r.ev[k].l) = r.dest_root
                      /\ r.ev[k].l # r.dest_root

-----------------------------------------------------------------------------
(* norm_remote: C18, C19 *)

\* C18: norm_remote is idempotent: applied to its own result it returns
\* that result.
C18_NormRemoteIdempotent ==
    call.fn = "norm_remote" => norm_remote(call.out) = call.out

\* C19: the result of norm_remote holds no backslash, carriage return or
\* newline, starts with exactly one slash, and ends with a slash only when
\* it is the root "/".
C19_NormRemoteShape ==
    call.fn = "norm_remote" =>
        /\ \A i \in 1..Len(call.out) : call.out[i] \notin {"\\", "\r", "\n"}
        /\ StartsWith(call.out, "/")
        /\ Len(call.out) >= 2 => call.out[2] # "/"
        /\ EndsWith(call.out, "/") => call.out = <<"/">>

-----------------------------------------------------------------------------
(* list_dir: C16, C17 *)

\* the final path segment of a name NLST returned
FinalSegment(name) == Last(Split(Replace(name, "\\", "/"), "/"))
\* the elements of q at their first occurrence, in order
FirstOccurrences(q) ==
    LET keep == {i \in 1..Len(q) : \A k \in 1..(i - 1) : q[k] # q[i]}
        nth(n) == CHOOSE i \in keep : Cardinality({k \in keep : k < i}) = n - 1
    IN  [n \in 1..Cardinality(keep) |-> q[nth(n)]]
\* what NLST returned to the call
NlstOf(c) == NlstRaw(c.env, c.path, SrvList(c.env, c.path))

\* C16: when MLSD raises, at once or after it yielded entries, and NLST
\* answers, list_dir returns the final segments of the names NLST returned,
\* each once, in the order of their first occurrence there.
C16_FallbackIsNlst ==
    (/\ call.fn = "list_dir"
     /\ MlsdRaises(call.env, call.path) /\ ~NlstRaises(call.env, call.path))
    => call.out = FirstOccurrences([i \in 1..Len(NlstOf(call)) |->
                                        FinalSegment(NlstOf(call)[i])])

\* C17: list_dir returns neither "." nor "..".
C17_NoDotEntries ==
    call.fn = "list_dir" =>
        \A i \in 1..Len(call.out) : call.out[i] \notin {<<".">>, <<".", ".">>}

-----------------------------------------------------------------------------
(* is_dir: C20 *)

\* C20: when is_dir(path) has returned, the working directory of the
\* connection is the one it was before the call, and the result is true
\* exactly when the server let the client enter path.
C20_IsDirRestoresCwd ==
    call.fn = "is_dir" =>
        /\ SrvResolve(call.cwd) = SrvResolve(call.cur)
        /\ call.out = SrvIsDir(call.env, call.path)

-----------------------------------------------------------------------------
(* Connections: C21 *)

\* C21: when run_job or test_conn has returned after it called connect(),
\* no connection to the server is open, also when the login was refused on
\* the established connection; close() raised nothing, and a second close()
\* changes nothing.
C21_NoConnectionLeftOpen ==
    /\ \A i \in RunIdx :
          EvIdx(runs[i], {"connect"}) # {} =>
              (runs[i].sock = 0 /\ runs[i].outcome \in {"done", "failed"})
    /\ (call.fn = "test_conn" /\ call.box # "No profile") =>
          /\ call.sock = 0
          /\ ~call.ftp
          /\ call.exc = call.raised
          /\ call.again = [exc |-> call.exc, sock |-> call.closed, ftp |-> call.ftp]

-----------------------------------------------------------------------------
(* Deletion failures during the cleanup: C22 *)

\* the snapshots a cleanup that keeps n must delete: all but the n greatest
Doomed(before, n) ==
    {d \in before : Cardinality({e \in before : StrLess(Last(d), Last(e))}) >= n}
WarnedAt(r) == {r.ev[k].l : k \in EvIdx(r, {"warn_cleanup"})}

\* C22: in a cleanup, a snapshot whose deletion fails is logged as a warning
\* and stays, every other snapshot beyond the keep_last greatest is deleted,
\* and the run ends Done; a cleanup whose job directory does not exist
\* removes nothing, logs nothing and the run ends Done.
C22_DeletionFailureTolerated ==
    \A i \in RunIdx :
        LET r == runs[i]
            before == Snapshots(r.cdirs, r.job_dir)
            after == Snapshots(r.dirs1, r.job_dir)
        IN  EvIdx(r, {"cleanup"}) # {} =>
                /\ r.outcome = "done" /\ r.exc = NoExc
                /\ WarnedAt(r) \subseteq Doomed(before, r.keep_last)
                /\ after = before \ (Doomed(before, r.keep_last) \ WarnedAt(r))
                /\ Cardinality(EvIdx(r, {"rmtree"}))
                       = Cardinality(Doomed(before, r.keep_last) \ WarnedAt(r))
                /\ r.job_dir \notin r.cdirs =>
                       (r.dirs1 = r.cdirs /\ EvIdx(r, {"rmtree", "warn_cleanup"}) = {})

\* C22 witness: a cleanup that had two snapshots to delete, failed on the
\* first of them and deleted the second, in a run that ended Done
C22_Witness ==
    \E i \in RunIdx :
        /\ runs[i].outcome = "done" /\ runs[i].keep_last = 1
        /\ Cardinality(Snapshots(runs[i].cdirs, runs[i].job_dir)) = 3
        /\ Cardinality(WarnedAt(runs[i])) = 1
        /\ Cardinality(Snapshots(runs[i].dirs1, runs[i].job_dir)) = 2
        /\ \E k \in EvIdx(runs[i], {"warn_cleanup"}), m \in EvIdx(runs[i], {"rmtree"}) : k < m

\* the second case of C22 happens too: a dry run whose job directory was
\* never created enters the cleanup and ends Done
C22_MissingJobDir ==
    \E i \in RunIdx :
        /\ EvIdx(runs[i], {"cleanup"}) # {} /\ runs[i].job_dir \notin runs[i].cdirs
        /\ runs[i].outcome = "done"

-----------------------------------------------------------------------------
(* Terminal outcomes and notifications: C23 *)

Count(r, ops) == Cardinality(EvIdx(r, ops))
Before(r, a, b) == \A k \in EvIdx(r, a), m \in EvIdx(r, b) : k < m

\* C23: every run that passes the profile lookup logs exactly one terminal
\* outcome, Done or Failed; the start notification is sent before it when
\* notify_start is set, a success notification only after Done and only when
\* notify_success is set, a failure notification only after Failed and only
\* when notify_failure is set; Done is logged only when nothing was raised.
C23_OneTerminalOutcome ==
    \A i \in RunIdx :
        LET r == runs[i]
        IN  r.outcome # "noprofile" =>
                /\ Count(r, {"log_done", "log_failed"}) = 1
                /\ Count(r, {"notify_start"}) = (IF settings.notify_start THEN 1 ELSE 0)
                /\ Before(r, {"notify_start"}, {"log_done", "log_failed"})
                /\ Count(r, {"notify_success"})
                       = (IF settings.notify_success THEN Count(r, {"log_done"}) ELSE 0)
                /\ Count(r, {"notify_failure"})
                       = (IF settings.notify_failure THEN Count(r, {"log_failed"}) ELSE 0)
                /\ Before(r, {"log_done"}, {"notify_success"})
                /\ Before(r, {"log_failed"}, {"notify_failure"})
                /\ Count(r, {"log_done"}) = 1 => r.exc = NoExc

-----------------------------------------------------------------------------
(* Jobs that share a name: C24 *)

\* the jobs that share the name of job i and are due in minute m, and the
\* first of them in list order
Namesakes(i, m) == {k \in JobIdx : jobs[k].name = jobs[i].name /\ Due(k, m)}
FirstNamesake(i, m) == CHOOSE k \in Namesakes(i, m) : \A x \in Namesakes(i, m) : k <= x
ManualRun == runs' # runs /\ runs' # <<>> /\ runs'[1].trigger = "manual"

\* what the ticks of minute m triggered among the jobs named as job i
OneOfNamesakes(i, m) ==
    \A k \in Namesakes(i, m) :
        fired[<<k, m>>] = (IF k = FirstNamesake(i, m) THEN 1 ELSE 0)

\* C24: in every minute in which a tick evaluated the jobs, of the enabled
\* jobs that share one name and are due in that minute exactly the first in
\* list order was triggered, once, and the others not at all; a manual run
\* leaves last_run_key as it was.
C24_DedupByName ==
    /\ [](\A i \in JobIdx : \A m \in ticked : OneOfNamesakes(i, m))
    /\ [][ManualRun => last_run_key' = last_run_key]_vars

-----------------------------------------------------------------------------
(* The timer loop: C25 *)

\* C25: at most one _tick callback is pending at any time, whatever the
\* order of start_scheduler, stop_scheduler and timer expirations; while the
\* scheduler stays running no step adds a callback.
C25_SingleTimerLoop ==
    /\ [](pending <= 1)
    /\ [][(scheduler_running /\ scheduler_running') => pending' = pending]_vars

-----------------------------------------------------------------------------
(* The snapshot of the run itself: C26 *)

Downloaded(r) == {r.ev[k].l : k \in EvIdx(r, {"log_downloaded"})}

\* C26: after a snapshot-mode run, not a dry run and with keep_last >= 1,
\* that ended Done and downloaded at least one file, the timestamped
\* directory of that run exists, whatever else the job directory holds.
C26_OwnSnapshotSurvives ==
    \A i \in RunIdx :
        LET r == runs[i]
        IN  (/\ r.mode = "snapshot" /\ ~r.dry_run /\ r.keep_last >= 1
             /\ r.outcome = "done" /\ Downloaded(r) # {})
            => r.dest_root \in r.dirs1

-----------------------------------------------------------------------------
(* Dry runs and the retention policy: C27 *)

\* C27: a dry run of a snapshot-mode job with keep_last > 0 leaves the set
\* of snapshot directories of the job as it found it.
C27_DryRunKeepsSnapshots ==
    \A i \in RunIdx :
        LET r == runs[i]
        IN  (r.dry_run /\ r.mode = "snapshot" /\ r.keep_last > 0 /\ r.outcome # "noprofile")
            => Snapshots(r.dirs1, r.job_dir) = Snapshots(r.dirs0, r.job_dir)

-----------------------------------------------------------------------------
(* Termination of the tree walk: C28 *)

RemoteDirs(r) == {d \in r.env.srv.dirs : IsUnder(d, SrvResolve(r.remote_full))}
EnterEntries(r, d) == {k \in EvIdx(r, {"log_entering"}) : SrvResolve(r.ev[k].r) = d}

\* the run r walks a remote tree with include_subdirs set, the server
\* accepts the connection, every retrieval and every change of directory,
\* at least one of the two listing commands answers, and no download raised
\* an error, remote or local
WalksTree(r) ==
    /\ SourceIsDir(r) /\ r.include_subdirs
    /\ r.env.connect = "ok" /\ r.env.retrFail = {} /\ r.env.cwdBack = "ok"
    /\ r.exc \notin TransferErrors
    /\ \A d \in r.env.srv.dirs :
          Range(r.env.srv.list[d]) = {Last(x) : x \in RemoteChildren(r.env.srv, d)}
    /\ r.env.mlsd # "fail" \/ r.env.nlst # "fail"

\* each directory of the tree entered once, each file attempted once, Done
WalkedOnce(r) ==
    /\ r.outcome = "done"
    /\ \A d \in RemoteDirs(r) : Cardinality(EnterEntries(r, d)) = 1
    /\ Cardinality(EvIdx(r, {"log_entering"})) = Cardinality(RemoteDirs(r))
    /\ OneEntryPerFile(r)

\* C28: with include_subdirs set, whichever listing command answers and no
\* transfer error, the walk of a finite remote tree ends, has entered each
\* remote directory exactly once and attempted each remote file exactly
\* once, and the run is Done.
C28_WalkVisitsEachOnce ==
    \A i \in RunIdx : WalksTree(runs[i]) => WalkedOnce(runs[i])

-----------------------------------------------------------------------------
(* Profile names: C29 *)

Resolving(name) == {i \in 1..Len(profiles) : profiles[i].name = name}

\* C29: no two profiles of the list have the same name, after any sequence
\* of profile_new, profile_save and profile_delete from a list of distinct
\* names, so the profile name of a job resolves to at most one profile.
C29_ProfileNamesDistinct ==
    /\ \A i, k \in 1..Len(profiles) : i # k => profiles[i].name # profiles[k].name
    /\ \A j \in JobIdx : Cardinality(Resolving(jobs[j].profile)) <= 1

====
